---- MODULE Spec2Model ----
(***************************************************************************)
(* A model of swpatterns: the interface registry and conformance checker   *)
(* (interface.py), the composition mixin generator (composition.py) and    *)
(* the match evaluator with its branch classes (matching.py).              *)
(***************************************************************************)
EXTENDS Integers, Sequences, FiniteSets, TLC

VARIABLES
    ins,      \* interface name -> its namespace, vars(interface), in definition order
    ns,       \* class name -> its own namespace, vars(cls), without __interfaces__
    base,     \* class name -> its base class ("object" when it has none)
    reg,      \* class name -> its own __interfaces__ attribute: [has, tup]
    py310,    \* TRUE when the interpreter makes staticmethod objects callable (>= 3.10)
    res,      \* the outcome of the last implements / isimplementation call
    applied,  \* history: the <<class, interface>> pairs implements has returned for
    mTarget,  \* match: the target of the call in progress
    mBranches,\* match: the branches of the call in progress
    mPc,      \* match: where the call is ("idle", "validate", "loop", "done")
    mIdx,     \* match: the loop index i
    mLog,     \* match: the branch methods evaluated so far, in order
    mRes,     \* match: what the call returned or raised
    cCfg,     \* composition: the arguments of the Compose(...) call behind class B
    heap,     \* composition: object id -> [type, attrs], attrs its instance dict
    cRes      \* composition: the outcome of the last operation

ifaceVars == <<ins, ns, base, reg, py310, res, applied>>
matchVars == <<mTarget, mBranches, mPc, mIdx, mLog, mRes>>
composeVars == <<cCfg, heap, cRes>>
vars == <<ifaceVars, matchVars, composeVars>>

Range(s) == {s[k] : k \in DOMAIN s}

(***************************************************************************)
(* Values found in class namespaces.  A member is a name bound to a value  *)
(* of some type; functions (and the functions wrapped by staticmethod and  *)
(* classmethod objects) carry a signature, dicts carry their items.        *)
(***************************************************************************)
Empty == "empty"                      \* inspect.Parameter.empty, one object
\* Annotation objects. "T1" and "T2" are two distinct objects that compare
\* equal (the same string annotation built in two modules); "int" is the type.
AnnObjects == {"int", "T1", "T2"}
Anns == AnnObjects \cup {Empty}
AnnValue(a) == IF a \in {"T1", "T2"} THEN "T" ELSE a
AnnIs(a, b) == a = b
AnnEq(a, b) == AnnValue(a) = AnnValue(b)
AnnIsType(a) == a = "int"

ParamKinds == {"POSITIONAL_OR_KEYWORD", "KEYWORD_ONLY"}
MaxParams == 2

Param(kind, ann) == [kind |-> kind, ann |-> ann]
Member(name, type, params, ret, items) ==
    [name |-> name, type |-> type, params |-> params, ret |-> ret, items |-> items]
Func(name, params, ret) == Member(name, "function", params, ret, <<>>)
Data(name, type) == Member(name, type, <<>>, Empty, <<>>)

\* isinstance(value, type(other)) on the types of two namespace values
IsInstance(t, u) == t = u \/ (t = "bool" /\ u = "int")

NONE_RELEVANT_VARS == {"__module__", "__doc__"}

HasKey(nsq, key) == \E k \in DOMAIN nsq : nsq[k].name = key
Lookup(nsq, key) == nsq[CHOOSE k \in DOMAIN nsq : nsq[k].name = key]
Relevant(nsq) == SelectSeq(nsq, LAMBDA m : m.name \notin NONE_RELEVANT_VARS)

\* getattr(cls, key, None) on a class: its own namespace, then its bases'
RECURSIVE ClassAttr(_, _)
ClassAttr(cls, key) ==
    IF cls = "object" THEN Data(key, "NoneType")
    ELSE IF HasKey(ns[cls], key) THEN Lookup(ns[cls], key)
    ELSE ClassAttr(base[cls], key)

\* hasattr(cls, "__interfaces__") and getattr(cls, "__interfaces__", tuple())
RECURSIVE HasInterfaces(_)
HasInterfaces(cls) ==
    IF cls = "object" THEN FALSE
    ELSE reg[cls].has \/ HasInterfaces(base[cls])
RECURSIVE GetInterfaces(_)
GetInterfaces(cls) ==
    IF cls = "object" THEN <<>>
    ELSE IF reg[cls].has THEN reg[cls].tup
    ELSE GetInterfaces(base[cls])

(***************************************************************************)
(* _perform_check                                                          *)
(***************************************************************************)
Pass == [outcome |-> "pass", why |-> ""]
Fail(verbose, exc, why) ==
    [outcome |-> IF verbose THEN exc ELSE "False", why |-> why]

\* callable(value)
Callable(m) == m.type = "function" \/ (m.type = "staticmethod" /\ py310)

\* The body of the try block: the first TypeError it raises ("" when none).
RECURSIVE ParamLoop(_, _, _, _)
ParamLoop(params, impl_params, i, skip) ==
    IF i > Len(params) \/ i > Len(impl_params) THEN ""
    ELSE IF impl_params[i].kind # params[i].kind THEN "kind"
    ELSE IF /\ ~skip
            /\ params[i].ann # Empty
            /\ ~AnnIs(impl_params[i].ann, params[i].ann) THEN "annotation"
    ELSE ParamLoop(params, impl_params, i + 1, skip)

ReturnCheckMutIs(value, impl_value) ==
    value.ret # Empty /\ ~AnnIs(value.ret, impl_value.ret)
ReturnCheck(value, impl_value) ==
    value.ret # Empty /\ ~AnnEq(value.ret, impl_value.ret)

SignatureCheck(value, impl_value, skip) ==
    IF Len(value.params) # Len(impl_value.params) THEN "count"
    ELSE IF ~skip /\ ReturnCheck(value, impl_value) THEN "return"
    ELSE ParamLoop(value.params, impl_value.params, 1, skip)

\* The "__annotate__" branch: only the first item of value is ever looked at,
\* and every path through the loop body raises or returns.
AnnotateCheck(impl, value, impl_value, verbose) ==
    IF Len(value.items) = 0 THEN Pass
    ELSE LET attr_key == value.items[1].name
             attr_type == value.items[1].ann
             impl_attr == ClassAttr(impl, attr_key)
             typeError ==
                 IF \E k \in DOMAIN impl_value.items :
                        impl_value.items[k].name = attr_key
                 THEN LET it == CHOOSE k \in DOMAIN impl_value.items :
                                    impl_value.items[k].name = attr_key
                      IN  ~AnnIs(impl_value.items[it].ann, attr_type)
                 ELSE /\ impl_attr.type # "NoneType"
                      \* isinstance raises TypeError itself for a non-type
                      /\ (~AnnIsType(attr_type) \/ IsInstance(impl_attr.type, attr_type))
         IN  IF typeError THEN Fail(verbose, "TypeError", "annotate")
             ELSE Fail(verbose, "KeyError", "annotate")

CheckMember(impl, targets, value, skip, verbose) ==
    IF ~HasKey(targets, value.name) THEN Fail(verbose, "KeyError", "missing")
    ELSE LET impl_value == Lookup(targets, value.name) IN
         IF ~(skip \/ IsInstance(impl_value.type, value.type))
         THEN Fail(verbose, "TypeError", "type")
         ELSE IF value.name = "__annotate__" /\ ~skip
         THEN AnnotateCheck(impl, value, impl_value, verbose)
         ELSE IF Callable(value)
         THEN \* inspect.signature(impl_value) raises outside the try block
              IF ~Callable(impl_value)
              THEN [outcome |-> "TypeError", why |-> "signature"]
              ELSE LET e == SignatureCheck(value, impl_value, skip) IN
                   IF e = "" THEN Pass ELSE Fail(verbose, "TypeError", e)
         ELSE Pass

RECURSIVE CheckFrom(_, _, _, _, _, _)
CheckFrom(impl, checklist, targets, i, skip, verbose) ==
    IF i > Len(checklist) THEN [outcome |-> "True", why |-> ""]
    ELSE LET r == CheckMember(impl, targets, checklist[i], skip, verbose) IN
         IF r.outcome = "pass"
         THEN CheckFrom(impl, checklist, targets, i + 1, skip, verbose)
         ELSE r

_perform_check(impl, interface, skip_types, verbose) ==
    LET checklist == Relevant(ins[interface])
        targets == Relevant(ns[impl])
    IN  IF Len(checklist) = 0 THEN [outcome |-> "True", why |-> ""]
        ELSE CheckFrom(impl, checklist, targets, 1, skip_types, verbose)

(***************************************************************************)
(* InterfaceMeta.__implementationcheck__ and isimplementation              *)
(***************************************************************************)
__implementationcheck__MutFuzzy(cls, impl, fuzzy, skip_types) ==
    IF HasInterfaces(impl) THEN cls \in Range(GetInterfaces(impl))
    ELSE _perform_check(impl, cls, skip_types, FALSE).outcome = "True"
__implementationcheck__(cls, impl, fuzzy, skip_types) ==
    IF HasInterfaces(impl) THEN cls \in Range(GetInterfaces(impl))
    ELSE IF fuzzy THEN _perform_check(impl, cls, skip_types, FALSE).outcome = "True"
    ELSE FALSE

\* issubclass(interface, Interface)
IsInterfaceType(t) == t \in DOMAIN ins

\* any(...) over a generator: stops at the first True; [value, checks made]
RECURSIVE AnyCheckMutAll(_, _, _)
AnyCheckMutAll(impl, interfaces, i) ==
    IF i > Len(interfaces) THEN [value |-> TRUE, checks |-> i - 1]
    ELSE IF ~__implementationcheck__(interfaces[i], impl, FALSE, FALSE)
    THEN [value |-> FALSE, checks |-> i]
    ELSE AnyCheckMutAll(impl, interfaces, i + 1)
RECURSIVE AnyCheck(_, _, _)
AnyCheck(impl, interfaces, i) ==
    IF i > Len(interfaces) THEN [value |-> FALSE, checks |-> i - 1]
    ELSE IF __implementationcheck__(interfaces[i], impl, FALSE, FALSE)
    THEN [value |-> TRUE, checks |-> i]
    ELSE AnyCheck(impl, interfaces, i + 1)

\* The second argument is a tuple of targets or one bare target.
TupleArg(items) == [tuple |-> TRUE, items |-> items]
BareArg(t) == [tuple |-> FALSE, items |-> <<t>>]

isimplementation(impl, interface_or_tuple) ==
    LET interfaces == interface_or_tuple.items IN
    IF \E k \in DOMAIN interfaces : ~IsInterfaceType(interfaces[k])
    THEN [outcome |-> "TypeError", value |-> FALSE, checks |-> 0]
    ELSE LET a == AnyCheck(impl, interfaces, 1) IN
         [outcome |-> "ok", value |-> a.value, checks |-> a.checks]

(***************************************************************************)
(* implements(interface, skip_types)(cls)                                  *)
(***************************************************************************)
NewInterfaceListMutReplace(interface, original) == <<interface>>
NewInterfaceList(interface, original) ==
    IF interface \notin Range(original) THEN <<interface>> \o original ELSE original

NoRes == [op |-> "none", cls |-> "", arg |-> TupleArg(<<>>), skip |-> FALSE,
          outcome |-> "", why |-> "", value |-> FALSE, checks |-> 0]

Implements(cls, interface, skip_types) ==
    LET r == _perform_check(cls, interface, skip_types, TRUE)
        original == GetInterfaces(cls)
    IN  /\ res' = [NoRes EXCEPT !.op = "implements", !.cls = cls,
                                !.arg = BareArg(interface), !.skip = skip_types,
                                !.outcome = IF r.outcome = "True" THEN "ok"
                                            ELSE r.outcome,
                                !.why = r.why]
        /\ IF r.outcome = "True"
           THEN /\ reg' = [reg EXCEPT ![cls] =
                              [has |-> TRUE,
                               tup |-> NewInterfaceList(interface, original)]]
                /\ applied' = applied \cup {<<cls, interface>>}
           ELSE UNCHANGED <<reg, applied>>
        /\ UNCHANGED <<ins, ns, base, py310>>

IsImplementation(impl, arg) ==
    LET r == isimplementation(impl, arg) IN
    /\ res' = [NoRes EXCEPT !.op = "isimplementation", !.cls = impl, !.arg = arg,
                            !.outcome = r.outcome, !.value = r.value,
                            !.checks = r.checks]
    /\ UNCHANGED <<ins, ns, base, reg, py310, applied>>

\* A class statement: a new class object with the given body and base.
DefineClass(cls, b, body) ==
    /\ cls \notin DOMAIN ns
    /\ ns' = [c \in DOMAIN ns \cup {cls} |-> IF c = cls THEN body ELSE ns[c]]
    /\ base' = [c \in DOMAIN ns \cup {cls} |-> IF c = cls THEN b ELSE base[c]]
    /\ reg' = [c \in DOMAIN ns \cup {cls} |->
                  IF c = cls THEN [has |-> FALSE, tup |-> <<>>] ELSE reg[c]]
    /\ UNCHANGED <<ins, py310, res, applied>>

(***************************************************************************)
(* Runtime values seen by match: ints, bools, None, tuples and plain       *)
(* objects.  An object has an identity (v) and instance attributes.        *)
(***************************************************************************)
IntV(n) == [type |-> "int", v |-> n, attrs |-> <<>>]
BoolV(b) == [type |-> "bool", v |-> IF b THEN 1 ELSE 0, attrs |-> <<>>]
NoneV == [type |-> "NoneType", v |-> 0, attrs |-> <<>>]
TupleV(items) == [type |-> "tuple", v |-> 0, attrs |-> items]
ObjV(type, id, attrs) == [type |-> type, v |-> id, attrs |-> attrs]
Attr(name, val) == [name |-> name, val |-> val]

IsNumber(a) == a.type \in {"int", "bool"}
\* a == b: numbers by value, everything else by identity
PyEq(a, b) == IF IsNumber(a) /\ IsNumber(b) THEN a.v = b.v ELSE a = b
\* bool(a)
Truthy(a) ==
    IF IsNumber(a) THEN a.v # 0
    ELSE IF a.type = "NoneType" THEN FALSE
    ELSE IF a.type = "tuple" THEN Len(a.attrs) > 0
    ELSE TRUE

\* The classes targets are drawn from: A1 is a subclass of A.
TypeBase(t) == IF t = "A1" THEN "A" ELSE "object"
RECURSIVE IsSubclass(_, _)
IsSubclass(t, u) ==
    IF t = u THEN TRUE
    ELSE IF t = "object" THEN FALSE
    ELSE IsSubclass(IF t = "bool" THEN "int" ELSE TypeBase(t), u)
\* isinstance(target, type_)
IsInstanceOf(target, type_) == IsSubclass(target.type, type_)

HasAttr(target, attr) ==
    target.type \notin {"int", "bool", "NoneType", "tuple"}
    /\ \E k \in DOMAIN target.attrs : target.attrs[k].name = attr
\* getattr(target, attr), for a target that has it
GetAttr(target, attr) ==
    target.attrs[CHOOSE k \in DOMAIN target.attrs : target.attrs[k].name = attr].val

\* The callables handed to branches: total functions of one value.
CallPred(pred, x) ==
    IF pred = "odd" THEN BoolV(x.type = "int" /\ x.v % 2 = 1)
    ELSE x                                      \* "id": lambda x: x

(***************************************************************************)
(* Branch objects.  cls is the branch's class; check_val is what __init__  *)
(* stored (lit, pred or attrs/kwargs by class); func is what >> stored.    *)
(***************************************************************************)
NoFunc == [arity |-> 0, kind |-> "const", val |-> NoneV]   \* lambda: None
Branch(cls, lit, pred, type, attrs, kwargs, func, custom) ==
    [cls |-> cls, lit |-> lit, pred |-> pred, type |-> type, attrs |-> attrs,
     kwargs |-> kwargs, func |-> func, custom |-> custom]
Default == Branch("MatchBranch", NoneV, "", "", <<>>, <<>>, NoFunc, FALSE)
Literal(v) == [Default EXCEPT !.cls = "Literal", !.lit = v]
Conditional(p) == [Default EXCEPT !.cls = "Conditional", !.pred = p]
Struct(type, attrs, kwargs) ==
    [Default EXCEPT !.cls = "Struct", !.type = type, !.attrs = attrs, !.kwargs = kwargs]
\* A user's branch class whose check returns () when custom, else None.
UserBranch(cls, custom) == [Default EXCEPT !.cls = cls, !.custom = custom]

\* A keyword constraint attr=val: val is a callable (pred) or a plain value.
Constraint(attr, callable, val, pred) ==
    [attr |-> attr, callable |-> callable, val |-> val, pred |-> pred]

\* MatchBranch.__rshift__: a callable result is kept, anything else is wrapped
\* in a lambda of no arguments.
ConstFunc(val) == [arity |-> 0, kind |-> "const", val |-> val]
FirstFunc == [arity |-> 1, kind |-> "first", val |-> NoneV]    \* lambda x: x
Rshift(branch, func) == [branch EXCEPT !.func = func]

\* MatchBranch.apply: self._mb.func applied to args
Apply(branch, args) ==
    IF Len(args) # branch.func.arity
    THEN [outcome |-> "TypeError", why |-> "call", val |-> NoneV]
    ELSE [outcome |-> "ok", why |-> "",
          val |-> IF branch.func.kind = "first" THEN args[1] ELSE branch.func.val]

\* What a check call produced: None, a tuple, or an exception that escapes.
NoneResult == [exc |-> "", none |-> TRUE, tup |-> <<>>]
TupleResult(t) == [exc |-> "", none |-> FALSE, tup |-> t]
Raised(e) == [exc |-> e, none |-> TRUE, tup |-> <<>>]

\* all(... for attr, val in kwargs.items()): "true", "false" or the exception
RECURSIVE AllConstraints(_, _, _)
AllConstraints(target, kwargs, i) ==
    IF i > Len(kwargs) THEN "true"
    ELSE LET c == kwargs[i] IN
         IF ~HasAttr(target, c.attr) THEN "AttributeError"
         ELSE LET a == GetAttr(target, c.attr)
                  holds == IF ~c.callable THEN PyEq(a, c.val)
                           ELSE Truthy(CallPred(c.pred, a))
              IN  IF holds THEN AllConstraints(target, kwargs, i + 1) ELSE "false"

\* tuple(getattr(target, attr) for attr in args), inside the try block
StructTupleMutOutside(target, args) ==
    IF \E k \in DOMAIN args : ~HasAttr(target, args[k])
    THEN Raised("AttributeError")
    ELSE TupleResult([k \in DOMAIN args |-> GetAttr(target, args[k])])
StructTuple(target, args) ==
    IF \E k \in DOMAIN args : ~HasAttr(target, args[k])
    THEN NoneResult                             \* except AttributeError
    ELSE TupleResult([k \in DOMAIN args |-> GetAttr(target, args[k])])

StructCheck(branch, target) ==
    IF IsInstanceOf(target, branch.type)
    THEN IF AllConstraints(target, branch.kwargs, 1) = "true"
         THEN StructTuple(target, branch.attrs)
         ELSE NoneResult
    ELSE NoneResult

\* branch.check(target), by the branch's class
Check(branch, target) ==
    IF branch.cls = "Struct" THEN StructCheck(branch, target)
    ELSE IF branch.cls = "Literal"
    THEN IF PyEq(branch.lit, target) THEN TupleResult(<<>>) ELSE NoneResult
    ELSE IF branch.cls = "Conditional"
    THEN IF Truthy(CallPred(branch.pred, target)) THEN TupleResult(<<target>>)
         ELSE NoneResult
    ELSE IF branch.cls = "MatchBranch" THEN TupleResult(<<>>)
    ELSE IF branch.custom THEN TupleResult(<<>>) ELSE NoneResult

\* Struct.__class_getitem__: Struct[type_] is a new subclass of Struct
StructClass(type_) == type_ \o "MatchBrach"
\* type(branch): the class a branch object's attributes are looked up on
BranchClass(branch) ==
    IF branch.cls = "Struct" THEN StructClass(branch.type) ELSE branch.cls

\* if check_result is not None
MatchedMutTruthy(check_result) == ~check_result.none /\ Len(check_result.tup) > 0
Matched(check_result) == ~check_result.none

(***************************************************************************)
(* match(target, *branches), one step per evaluation it makes              *)
(***************************************************************************)
NoMatchRes == [outcome |-> "", why |-> "", val |-> NoneV]

MatchCall(target, branches) ==
    /\ mPc = "idle"
    /\ mTarget' = target
    /\ mBranches' = branches
    /\ mPc' = "validate"
    /\ mIdx' = 1
    /\ mLog' = <<>>
    /\ mRes' = NoMatchRes

\* all(isimplementation(branch, _IMatchBranch) for branch in branches)
AllBranchesImplementMutAny(branches) ==
    \E k \in DOMAIN branches :
        isimplementation(BranchClass(branches[k]), BareArg("_IMatchBranch")).value
AllBranchesImplement(branches) ==
    \A k \in DOMAIN branches :
        isimplementation(BranchClass(branches[k]), BareArg("_IMatchBranch")).value

MatchValidate ==
    /\ mPc = "validate"
    /\ IF ~AllBranchesImplement(mBranches)
       THEN /\ mPc' = "done"
            /\ mRes' = [outcome |-> "TypeError", why |-> "branches", val |-> NoneV]
       ELSE /\ mPc' = "loop"
            /\ mRes' = mRes
    /\ UNCHANGED <<mTarget, mBranches, mIdx, mLog>>

MatchStep ==
    /\ mPc = "loop"
    /\ IF mIdx > Len(mBranches)
       THEN /\ mPc' = "done"
            /\ mRes' = [outcome |-> "ok", why |-> "", val |-> NoneV]
            /\ UNCHANGED <<mIdx, mLog>>
       ELSE LET branch == mBranches[mIdx]
                check_result == Check(branch, mTarget)
            IN  IF check_result.exc # ""
                THEN /\ mLog' = Append(mLog, <<"check", mIdx>>)
                     /\ mRes' = [outcome |-> check_result.exc, why |-> "check",
                                 val |-> NoneV]
                     /\ mPc' = "done"
                     /\ mIdx' = mIdx
                ELSE IF Matched(check_result)
                THEN /\ mLog' = mLog \o <<<<"check", mIdx>>, <<"apply", mIdx>>>>
                     /\ mRes' = Apply(branch, check_result.tup)
                     /\ mPc' = "done"
                     /\ mIdx' = mIdx
                ELSE /\ mLog' = Append(mLog, <<"check", mIdx>>)
                     /\ mIdx' = mIdx + 1
                     /\ UNCHANGED <<mPc, mRes>>
    /\ UNCHANGED <<mTarget, mBranches>>

\* The call is over and its frame gone; the caller holds the result.
MatchReturn ==
    /\ mPc = "done"
    /\ mPc' = "idle"
    /\ mTarget' = NoneV
    /\ mBranches' = <<>>
    /\ mIdx' = 1
    /\ mLog' = <<>>
    /\ UNCHANGED mRes

\* branch.check(target) called on its own
CheckCall ==
    /\ mPc = "idle"
    /\ Len(mBranches) = 1
    /\ mPc' = "checked"
    /\ mLog' = <<<<"check", 1>>>>
    /\ mRes' = LET r == Check(mBranches[1], mTarget) IN
               IF r.exc # "" THEN [outcome |-> r.exc, why |-> "check", val |-> NoneV]
               ELSE IF r.none THEN [outcome |-> "ok", why |-> "", val |-> NoneV]
               ELSE [outcome |-> "ok", why |-> "", val |-> TupleV(r.tup)]
    /\ UNCHANGED <<mTarget, mBranches, mIdx>>

(***************************************************************************)
(* Compose(type_, *fields, name, build, args, kwargs) and the composite    *)
(* class B derived from the type it returns.  Objects live in a heap; the  *)
(* classes of composees are those of ns, whose __init__(self, **kw) stores *)
(* each keyword as an instance attribute, and whose __bool__, when the     *)
(* class defines one, returns False.                                       *)
(***************************************************************************)
Composite == "B"

\* str.lower() on the class names of this model
Lower(s) ==
    CASE s = "A" -> "a"
      [] s = "Zero" -> "zero"
      [] s = "P" -> "p"
      [] s = "Q" -> "q"
      [] s = "IFace" -> "iface"
      [] OTHER -> s

\* name_ = name or f"_{type_.__name__.lower()}"   ("" stands for None too)
name_(cfg) == IF cfg.name # "" THEN cfg.name ELSE "_" \o Lower(cfg.type_)

\* fields_: a plain field name f, given as <<f>>, is the pair (f, f)
fields_(cfg) ==
    [k \in DOMAIN cfg.fields |->
        IF Len(cfg.fields[k]) = 1 THEN <<cfg.fields[k][1], cfg.fields[k][1]>>
        ELSE cfg.fields[k]]
Origins(cfg) == {fields_(cfg)[k][1] : k \in DOMAIN cfg.fields}
Dests(cfg) == {fields_(cfg)[k][2] : k \in DOMAIN cfg.fields}

RefV(id) == [type |-> "ref", v |-> id, attrs |-> <<>>]
\* The value a class attribute evaluates to: the object bound in the class body.
ClassV(cls, key) == [type |-> "classattr", v |-> 0, attrs |-> <<cls, key>>]

RECURSIVE ClassHasAttr(_, _)
ClassHasAttr(cls, key) ==
    IF cls = "object" \/ cls \notin DOMAIN ns THEN FALSE
    ELSE HasKey(ns[cls], key) \/ ClassHasAttr(base[cls], key)
RECURSIVE ClassOwner(_, _)
ClassOwner(cls, key) ==
    IF HasKey(ns[cls], key) THEN cls ELSE ClassOwner(base[cls], key)

\* hasattr / getattr / setattr / delattr on a heap object of h
ObjHasAttr(h, o, attr) ==
    attr \in DOMAIN h[o].attrs \/ ClassHasAttr(h[o].type, attr)
ObjGetAttr(h, o, attr) ==
    IF attr \in DOMAIN h[o].attrs
    THEN [outcome |-> "ok", val |-> h[o].attrs[attr]]
    ELSE IF ClassHasAttr(h[o].type, attr)
    THEN [outcome |-> "ok", val |-> ClassV(ClassOwner(h[o].type, attr), attr)]
    ELSE [outcome |-> "AttributeError", val |-> NoneV]
WithAttr(attrs, attr, value) ==
    [n \in DOMAIN attrs \cup {attr} |-> IF n = attr THEN value ELSE attrs[n]]
WithoutAttr(attrs, attr) == [n \in DOMAIN attrs \ {attr} |-> attrs[n]]
ObjSetAttr(h, o, attr, value) ==
    [h EXCEPT ![o].attrs = WithAttr(h[o].attrs, attr, value)]
ObjDelAttr(h, o, attr) ==
    IF attr \in DOMAIN h[o].attrs
    THEN [outcome |-> "ok", heap |-> [h EXCEPT ![o].attrs = WithoutAttr(h[o].attrs, attr)]]
    ELSE [outcome |-> "AttributeError", heap |-> h]

\* bool(obj)
ObjTruthy(h, o) == ~ClassHasAttr(h[o].type, "__bool__")

MaxObjs == 3
Alloc(h, obj) == Append(h, obj)

(***************************************************************************)
(* InheritableComposition.__init__: obj is the object under the composee   *)
(* keyword, 0 when the keyword is absent or None.  Returns what was raised *)
(* (or "ok"), whether type_ was called, and the object stored.             *)
(***************************************************************************)
NeedsBuild(h, obj) == obj = 0 \/ ~ObjTruthy(h, obj)         \* if not obj

CanBuildMutIface(cfg) == cfg.build
CanBuild(cfg) == cfg.build /\ ~IsInterfaceType(cfg.type_)

MissingFields(h, o, cfg) == {attr \in Origins(cfg) : ~ObjHasAttr(h, o, attr)}

ComposeInit(cfg, h, supplied) ==
    LET build == NeedsBuild(h, supplied)
        built == build /\ CanBuild(cfg)
        \* obj = type_(...) with the Compose kwargs: the new object, not yet referenced
        h1 == IF built THEN Alloc(h, [type |-> cfg.type_, attrs |-> cfg.kwargs]) ELSE h
        obj == IF built THEN Len(h1) ELSE supplied
        r(outcome, why) == [outcome |-> outcome, why |-> why, built |-> built,
                            obj |-> IF outcome = "ok" THEN obj ELSE 0]
    IN  IF build /\ ~built THEN r("ValueError", "instance")
        ELSE IF /\ ~build
                /\ IsInterfaceType(cfg.type_)
                /\ ~isimplementation(h[supplied].type, BareArg(cfg.type_)).value
        THEN r("TypeError", "interface")
        ELSE IF MissingFields(h1, obj, cfg) # {} THEN r("TypeError", "fields")
        \* setattr(self, name_, obj) runs the property when a dest has that name
        ELSE IF name_(cfg) \in Dests(cfg) THEN r("RecursionError", "name")
        ELSE r("ok", "")

NoComposeRes == [op |-> "none", comp |-> 0, dest |-> "", supplied |-> 0,
                 outcome |-> "", why |-> "", val |-> NoneV, built |-> FALSE, obj |-> 0]

IsComposite(o) == o \in DOMAIN heap /\ heap[o].type = Composite
IsComposee(o) == o \in DOMAIN heap /\ heap[o].type # Composite

\* B(**{name_: supplied}), or B() when supplied is 0
Instantiate(supplied) ==
    LET r == ComposeInit(cCfg, heap, supplied)
        h1 == IF r.built /\ r.outcome = "ok"
              THEN Alloc(heap, [type |-> cCfg.type_, attrs |-> cCfg.kwargs]) ELSE heap
        self == Len(h1) + 1
    IN  /\ self <= MaxObjs
        /\ heap' = IF r.outcome = "ok"
                   THEN Alloc(h1, [type |-> Composite,
                                   attrs |-> WithAttr(<<>>, name_(cCfg), RefV(r.obj))])
                   ELSE heap
        /\ cRes' = [NoComposeRes EXCEPT !.op = "init", !.supplied = supplied,
                                        !.outcome = r.outcome, !.why = r.why,
                                        !.built = r.built, !.obj = r.obj,
                                        !.comp = IF r.outcome = "ok" THEN self ELSE 0]
        /\ UNCHANGED cCfg

\* The property _build_field(name_, origin) installed under dest: with several
\* pairs naming one dest, __init_subclass__'s last setattr stays.
PropertyField(cfg, dest) ==
    fields_(cfg)[CHOOSE k \in DOMAIN cfg.fields :
                    /\ fields_(cfg)[k][2] = dest
                    /\ \A j \in DOMAIN cfg.fields : fields_(cfg)[j][2] = dest => j <= k][1]

\* obj_getter = attrgetter(name)
obj_getter(h, self) == h[self].attrs[name_(cCfg)].v

getter(h, self, field) == ObjGetAttr(h, obj_getter(h, self), field)
setterMutSelf(h, self, field, value) == ObjSetAttr(h, self, field, value)
setter(h, self, field, value) == ObjSetAttr(h, obj_getter(h, self), field, value)
deleter(h, self, field) == ObjDelAttr(h, obj_getter(h, self), field)

\* composite.dest
ReadField(self, dest) ==
    LET r == getter(heap, self, PropertyField(cCfg, dest)) IN
    /\ cRes' = [NoComposeRes EXCEPT !.op = "read", !.comp = self, !.dest = dest,
                                    !.outcome = r.outcome, !.val = r.val]
    /\ UNCHANGED <<cCfg, heap>>

\* composite.dest = value
AssignField(self, dest, value) ==
    /\ heap' = setter(heap, self, PropertyField(cCfg, dest), value)
    /\ cRes' = [NoComposeRes EXCEPT !.op = "assign", !.comp = self, !.dest = dest,
                                    !.outcome = "ok", !.val = value]
    /\ UNCHANGED cCfg

\* del composite.dest
DeleteField(self, dest) ==
    LET r == deleter(heap, self, PropertyField(cCfg, dest)) IN
    /\ heap' = r.heap
    /\ cRes' = [NoComposeRes EXCEPT !.op = "delete", !.comp = self, !.dest = dest,
                                    !.outcome = r.outcome]
    /\ UNCHANGED cCfg

\* type(**kw) by the caller: a composee made outside the composite
NewObject(type, attrs) ==
    /\ Len(heap) < MaxObjs
    /\ heap' = Alloc(heap, [type |-> type, attrs |-> attrs])
    /\ cRes' = [NoComposeRes EXCEPT !.op = "new", !.obj = Len(heap) + 1]
    /\ UNCHANGED cCfg

\* obj.attr = value and del obj.attr by any holder of a composee
SetAttr(o, attr, value) ==
    /\ heap' = ObjSetAttr(heap, o, attr, value)
    /\ cRes' = [NoComposeRes EXCEPT !.op = "setattr", !.obj = o, !.dest = attr,
                                    !.outcome = "ok"]
    /\ UNCHANGED cCfg
DelAttr(o, attr) ==
    LET r == ObjDelAttr(heap, o, attr) IN
    /\ heap' = r.heap
    /\ cRes' = [NoComposeRes EXCEPT !.op = "delattr", !.obj = o, !.dest = attr,
                                    !.outcome = r.outcome]
    /\ UNCHANGED cCfg

(***************************************************************************)
(* Idle states of the three parts                                          *)
(***************************************************************************)
\* vars(cls) of a class with the given docstring type and body
Namespace(doc, body) == <<Data("__module__", "str"), Data("__doc__", doc)>> \o body

InitMatchIdle ==
    /\ mTarget = NoneV
    /\ mBranches = <<>>
    /\ mPc = "idle"
    /\ mIdx = 1
    /\ mLog = <<>>
    /\ mRes = NoMatchRes

NoCompose ==
    [type_ |-> "A", fields |-> <<>>, name |-> "", build |-> TRUE, kwargs |-> <<>>]
InitComposeIdle ==
    /\ cCfg = NoCompose
    /\ heap = <<>>
    /\ cRes = NoComposeRes

(***************************************************************************)
(* Spec: the interface registry.  Classes are defined, decorated with      *)
(* implements and queried with isimplementation, in any order.             *)
(***************************************************************************)
Self == Param("POSITIONAL_OR_KEYWORD", Empty)
\* class I(Interface): def test(self, a: int) -> int
TypedTest == Func("test", <<Self, Param("POSITIONAL_OR_KEYWORD", "int")>>, "int")
\* class J(Interface): def test(self, a)
PlainTest == Func("test", <<Self, Param("POSITIONAL_OR_KEYWORD", Empty)>>, Empty)

RegInterfaces ==
    [i \in {"I", "J"} |->
        IF i = "I" THEN Namespace("NoneType", <<TypedTest>>)
        ELSE Namespace("str", <<PlainTest>>)]
ClassNames == {"A", "B"}
ClassBodies ==
    {Namespace("str", <<TypedTest>>), Namespace("NoneType", <<PlainTest>>),
     Namespace("NoneType", <<>>)}

\* What isimplementation is asked about: interfaces and one type that is none.
MaxTuple == 2
Targets == DOMAIN ins \cup {"int"}
TargetTuples == UNION {[1..n -> Targets] : n \in 0..MaxTuple}

InitReg ==
    /\ ins = RegInterfaces
    /\ ns = <<>>
    /\ base = <<>>
    /\ reg = <<>>
    /\ py310 = TRUE            \* no staticmethod among these classes' members
    /\ res = NoRes
    /\ applied = {}

Init == InitReg /\ InitMatchIdle /\ InitComposeIdle

DefineStep ==
    \E cls \in ClassNames, b \in DOMAIN ns \cup {"object"}, body \in ClassBodies :
        DefineClass(cls, b, body)
ImplementsStep ==
    \E cls \in DOMAIN ns, interface \in DOMAIN ins, skip_types \in BOOLEAN :
        Implements(cls, interface, skip_types)
IsImplementationStep ==
    \E impl \in DOMAIN ns :
        \/ \E t \in Targets : IsImplementation(impl, BareArg(t))
        \/ \E ts \in TargetTuples : IsImplementation(impl, TupleArg(ts))

Next ==
    /\ \/ DefineStep
       \/ ImplementsStep
       \/ IsImplementationStep
    /\ UNCHANGED <<matchVars, composeVars>>

Spec == Init /\ [][Next]_vars

\* C1: once implements(I) has returned for a class A, isimplementation(A, I)
\* is True, and stays True whatever implements is applied to A afterwards.
C1_RegisteredStaysImplemented ==
    \A p \in applied :
        LET r == isimplementation(p[1], BareArg(p[2])) IN
        r.outcome = "ok" /\ r.value

\* A class decorated for I and later for another interface is asked about I.
C1_Witness ==
    /\ res.op = "isimplementation"
    /\ res.value
    /\ ~res.arg.tuple
    /\ <<res.cls, res.arg.items[1]>> \in applied
    /\ reg[res.cls].has
    /\ Len(reg[res.cls].tup) >= 2
    /\ reg[res.cls].tup[1] # res.arg.items[1]

\* C9: with a tuple of interfaces isimplementation returns the disjunction of
\* the single-interface answers (False for the empty tuple); with a target that
\* is no interface it raises TypeError before any implementation check.
C9_TupleIsDisjunction ==
    res.op = "isimplementation" /\ res.arg.tuple =>
        LET ts == res.arg.items IN
        IF \A k \in DOMAIN ts : IsInterfaceType(ts[k])
        THEN /\ res.outcome = "ok"
             /\ res.value = (\E k \in DOMAIN ts :
                                isimplementation(res.cls, BareArg(ts[k])).value)
        ELSE /\ res.outcome = "TypeError"
             /\ res.checks = 0

\* A two-interface tuple whose first interface is not implemented and whose
\* second is.
C9_Witness ==
    /\ res.op = "isimplementation"
    /\ res.arg.tuple
    /\ Len(res.arg.items) = 2
    /\ res.outcome = "ok"
    /\ res.value
    /\ res.checks = 2

\* The classes attribute lookup on cls goes through, nearest first.
RECURSIVE Mro(_)
Mro(cls) == IF cls = "object" THEN <<>> ELSE <<cls>> \o Mro(base[cls])
\* The __interfaces__ tuple visible on cls: that of the nearest class that has
\* one of its own; none when no class of the chain has.
VisibleInterfaces(cls) ==
    LET m == Mro(cls)
        owners == {k \in DOMAIN m : reg[m[k]].has}
    IN  IF owners = {} THEN [has |-> FALSE, tup |-> <<>>]
        ELSE reg[m[CHOOSE k \in owners : \A j \in owners : k <= j]]

\* C11: isimplementation(impl, I) is True exactly when I is in the
\* __interfaces__ tuple visible on impl, its own or one inherited from a base
\* class, whatever the members of impl are: a conforming class never passed
\* through implements gives False, a subclass of a registered class gives True
\* even when it overrides a declared member with a non-conforming signature.
C11_RegistryOnly ==
    res.op = "isimplementation" /\ ~res.arg.tuple
    /\ IsInterfaceType(res.arg.items[1]) =>
        LET v == VisibleInterfaces(res.cls) IN
        /\ res.outcome = "ok"
        /\ res.value = (v.has /\ res.arg.items[1] \in Range(v.tup))

\* B, a subclass of the registered A with no __interfaces__ of its own,
\* overrides test with a signature the interface's check rejects, and is
\* reported an implementation.
C11_Witness ==
    /\ res.op = "isimplementation"
    /\ ~res.arg.tuple
    /\ res.value
    /\ IsInterfaceType(res.arg.items[1])
    /\ ~reg[res.cls].has
    /\ base[res.cls] # "object"
    /\ HasKey(ns[res.cls], "test")
    /\ _perform_check(res.cls, res.arg.items[1], FALSE, FALSE).outcome = "False"

(***************************************************************************)
(* SpecCheck: implements(I)(A) on one interface I and one class A, drawn   *)
(* from three families of class bodies.                                    *)
(***************************************************************************)
\* Parameter kinds of a signature: keyword-only parameters come last.
KindSeqs ==
    {ks \in UNION {[1..n -> ParamKinds] : n \in 0..MaxParams} :
        \A j, k \in DOMAIN ks :
            j < k /\ ks[j] = "KEYWORD_ONLY" => ks[k] = "KEYWORD_ONLY"}
Params(kinds, anns) == [k \in DOMAIN kinds |-> Param(kinds[k], anns[k])]
NoAnns(kinds) == [k \in DOMAIN kinds |-> Empty]

InitOnePair(iface_ns, class_ns) ==
    /\ ins = [i \in {"I"} |-> iface_ns]
    /\ ns = [c \in {"A"} |-> class_ns]
    /\ base = [c \in {"A"} |-> "object"]
    /\ reg = [c \in {"A"} |-> [has |-> FALSE, tup |-> <<>>]]
    /\ res = NoRes
    /\ applied = {}

\* One method each, of the same parameter count and kinds, annotated freely.
\* (The interface needs only one of the two equal annotation objects.)
InterfaceAnns == Anns \ {"T2"}
InitSignatures ==
    \E kinds \in KindSeqs :
      \E ia \in [DOMAIN kinds -> InterfaceAnns], ca \in [DOMAIN kinds -> Anns] :
        \E ir \in InterfaceAnns, cr \in Anns :
            /\ InitOnePair(Namespace("NoneType", <<Func("test", Params(kinds, ia), ir)>>),
                           Namespace("NoneType", <<Func("test", Params(kinds, ca), cr)>>))
            /\ py310 = TRUE

\* Members of every type, methods of every unannotated signature, present or
\* not, with a data member x before or after test.
MethodTypes == {"function", "staticmethod", "classmethod"}
TestValues ==
    {Member("test", t, Params(kinds, NoAnns(kinds)), Empty, <<>>) :
        t \in MethodTypes, kinds \in KindSeqs}
    \cup {Data("test", "int"), Data("test", "bool")}
XValues == {Data("x", "int"), Data("x", "bool")}
\* Class bodies; the order of a class's members does not matter to vars(cls)
\* lookups, the order of an interface's members is the order they are checked in.
Bodies(tests, xs) ==
    {<<>>} \cup {<<t>> : t \in tests} \cup {<<x>> : x \in xs}
    \cup {<<t, x>> : t \in tests, x \in xs}
InterfaceBodies(tests, xs) ==
    Bodies(tests, xs) \cup {<<x, t>> : t \in tests, x \in xs}

\* The interface has no docstring, the class has one.
InitMembers ==
    \E ib \in InterfaceBodies(TestValues, XValues), cb \in Bodies(TestValues, XValues) :
        /\ InitOnePair(Namespace("NoneType", ib), Namespace("str", cb))
        /\ py310 \in BOOLEAN

\* An interface that declares a member named __annotate__ holding a dict.
Item(name, ann) == [name |-> name, ann |-> ann]
Dict(name, items) == Member(name, "dict", <<>>, Empty, items)
AnnotateValues ==
    {Dict("__annotate__", <<>>)}
    \cup {Dict("__annotate__", <<Item("x", a)>>) : a \in AnnObjects}
InitAnnotate ==
    \E iv \in AnnotateValues, cv \in AnnotateValues \cup {Data("__annotate__", "int")} :
      \E cx \in Bodies({}, XValues \cup {Data("x", "NoneType")}) :
        /\ InitOnePair(Namespace("NoneType", <<iv>>), Namespace("NoneType", <<cv>> \o cx))
        /\ py310 = TRUE

InitCheck ==
    /\ InitSignatures \/ InitMembers \/ InitAnnotate
    /\ InitMatchIdle
    /\ InitComposeIdle

NextCheck ==
    /\ ImplementsStep
    /\ UNCHANGED <<matchVars, composeVars>>

SpecCheck == InitCheck /\ [][NextCheck]_vars

\* The one relevant member of a namespace that holds exactly one.
OnlyMember(nsq) == Relevant(nsq)[1]
IsMethodPair(i, c) ==
    /\ Len(Relevant(ins[i])) = 1
    /\ Len(Relevant(ns[c])) = 1
    /\ OnlyMember(ins[i]).type = "function"
    /\ OnlyMember(ns[c]).type = "function"
    /\ OnlyMember(ns[c]).name = OnlyMember(ins[i]).name
SameShape(m, n) ==
    /\ Len(m.params) = Len(n.params)
    /\ \A k \in DOMAIN m.params : m.params[k].kind = n.params[k].kind

\* The annotation rule as stated: annotated interface parameters must be
\* matched by the identical object, an annotated return by an equal one.
AnnotationsConform(m, n) ==
    /\ \A k \in DOMAIN m.params :
          m.params[k].ann # Empty => n.params[k].ann = m.params[k].ann
    /\ m.ret # Empty => AnnValue(n.ret) = AnnValue(m.ret)

IsMethod(m) == m.type \in MethodTypes
InvalidImplementation(c, i, skip) ==
    \E k \in DOMAIN Relevant(ins[i]) :
        LET m == Relevant(ins[i])[k] IN
        \/ ~HasKey(Relevant(ns[c]), m.name)
        \/ LET n == Lookup(Relevant(ns[c]), m.name) IN
           \/ n.type # m.type
           \/ /\ IsMethod(m)
              /\ \/ ~SameShape(m, n)
                 \/ ~skip /\ ~AnnotationsConform(m, n)

\* C2: implements raises TypeError, and nothing else, for every class that is
\* not a valid implementation: a declared member missing, of another kind, or
\* a method whose parameter count, kinds or (unless skip_types) annotations
\* differ.
C2_InvalidRaisesTypeError ==
    res.op = "implements"
    /\ InvalidImplementation(res.cls, res.arg.items[1], res.skip) =>
        res.outcome = "TypeError"

(***************************************************************************)
(* SpecMatch: match called on branches of the library's classes and of two *)
(* user classes, one decorated with implements(_IMatchBranch), one not.    *)
(***************************************************************************)
CheckMethod ==
    Func("check", <<Self, Param("POSITIONAL_OR_KEYWORD", "Any")>>, "Optional[Tuple]")
ApplyMethod == Func("apply", <<Self, Param("POSITIONAL_OR_KEYWORD", "Tuple")>>, "Any")

StructTypes == {"A", "B"}
LibraryBranches == {"MatchBranch", "Literal", "Conditional", "Struct"}
UserBranches == {"UserBranch", "PlainBranch"}
MatchClasses ==
    LibraryBranches \cup UserBranches \cup {StructClass(t) : t \in StructTypes}

\* The classes and their __interfaces__ once matching.py has been imported
\* and the user's classes defined.
InitMatchModule ==
    /\ ins = [i \in {"_IMatchBranch"} |-> Namespace("str", <<CheckMethod>>)]
    /\ ns = [c \in MatchClasses |->
               IF c \in {StructClass(t) : t \in StructTypes}
               THEN Namespace("NoneType", <<Data("_type", "type")>>)
               ELSE IF c \in {"MatchBranch"} \cup UserBranches
               THEN Namespace("str", <<CheckMethod, ApplyMethod>>)
               ELSE Namespace("str", <<CheckMethod>>)]
    /\ base = [c \in MatchClasses |->
                 IF c \in {StructClass(t) : t \in StructTypes} THEN "Struct"
                 ELSE IF c \in LibraryBranches \ {"MatchBranch"} THEN "MatchBranch"
                 ELSE "object"]
    /\ reg = [c \in MatchClasses |->
                IF c \in LibraryBranches \cup {"UserBranch"}
                THEN [has |-> TRUE, tup |-> NewInterfaceList("_IMatchBranch", <<>>)]
                ELSE [has |-> FALSE, tup |-> <<>>]]
    /\ py310 = TRUE
    /\ res = NoRes
    /\ applied = {c \in MatchClasses : c \in LibraryBranches \cup {"UserBranch"}}
                    \X {"_IMatchBranch"}

TargetA == ObjV("A", 1, <<Attr("x", IntV(1))>>)
MatchTargets == {IntV(1), IntV(2), TargetA}
BranchPool ==
    {Rshift(Default, ConstFunc(IntV(2))),
     Rshift(Literal(IntV(2)), ConstFunc(IntV(2))),
     Rshift(Literal(IntV(1)), ConstFunc(IntV(3))),
     Rshift(Conditional("odd"), FirstFunc),
     Rshift(Struct("A", <<"x">>, <<>>), FirstFunc),
     UserBranch("UserBranch", TRUE),
     UserBranch("UserBranch", FALSE),
     UserBranch("PlainBranch", TRUE)}
MaxBranches == 3
BranchLists == UNION {[1..n -> BranchPool] : n \in 0..MaxBranches}

InitMatch == InitMatchModule /\ InitMatchIdle /\ InitComposeIdle

MatchCallStep ==
    \E target \in MatchTargets, branches \in BranchLists : MatchCall(target, branches)

NextMatch ==
    /\ \/ MatchCallStep
       \/ MatchValidate
       \/ MatchStep
       \/ MatchReturn
    /\ UNCHANGED <<ifaceVars, composeVars>>

SpecMatch == InitMatch /\ [][NextMatch]_vars

\* Every branch's class carries _IMatchBranch in the __interfaces__ it sees.
AllRegistered ==
    \A k \in DOMAIN mBranches :
        /\ HasInterfaces(BranchClass(mBranches[k]))
        /\ "_IMatchBranch" \in Range(GetInterfaces(BranchClass(mBranches[k])))

\* The first branch whose check returns something other than None (0: none).
FirstMatch ==
    IF \E k \in DOMAIN mBranches : ~Check(mBranches[k], mTarget).none
    THEN CHOOSE k \in DOMAIN mBranches :
            /\ ~Check(mBranches[k], mTarget).none
            /\ \A j \in 1..(k - 1) : Check(mBranches[j], mTarget).none
    ELSE 0
ExpectedLog ==
    IF FirstMatch = 0 THEN [k \in 1..Len(mBranches) |-> <<"check", k>>]
    ELSE [k \in 1..(FirstMatch + 1) |->
            IF k <= FirstMatch THEN <<"check", k>> ELSE <<"apply", FirstMatch>>]
IsPrefix(s, t) == Len(s) <= Len(t) /\ \A k \in DOMAIN s : s[k] = t[k]

\* C4: match evaluates the checks in argument order, each once, up to the
\* first that returns non-None, evaluates that branch's result function and no
\* other, and returns its value; None when no check returns non-None.
C4_FirstMatchWins ==
    AllRegistered /\ mPc \in {"loop", "done"} =>
        /\ IsPrefix(mLog, ExpectedLog)
        /\ mPc = "done" =>
              /\ mLog = ExpectedLog
              /\ mRes = IF FirstMatch = 0
                        THEN [outcome |-> "ok", why |-> "", val |-> NoneV]
                        ELSE Apply(mBranches[FirstMatch],
                                   Check(mBranches[FirstMatch], mTarget).tup)

\* Three branches: the first does not match, the second matches with an empty
\* tuple, the third would match too.
C4_Witness ==
    /\ mPc = "done"
    /\ Len(mBranches) = 3
    /\ mLog = <<<<"check", 1>>, <<"check", 2>>, <<"apply", 2>>>>
    /\ Check(mBranches[2], mTarget).tup = <<>>
    /\ ~Check(mBranches[3], mTarget).none
    /\ mRes.outcome = "ok"
    /\ mRes.val = IntV(2)

\* C5: when some branch is not a registered implementation of _IMatchBranch,
\* match raises TypeError and evaluates no check and no result function.
C5_UnregisteredBranchRaises ==
    ~AllRegistered /\ mPc \in {"loop", "done"} =>
        /\ mLog = <<>>
        /\ mPc = "done"
        /\ mRes.outcome = "TypeError"
        /\ mRes.why = "branches"

\* A registered branch that would match comes before the unregistered one.
C5_Witness ==
    /\ mPc = "done"
    /\ mRes.outcome = "TypeError"
    /\ Len(mBranches) = 2
    /\ BranchClass(mBranches[1]) = "MatchBranch"
    /\ ~Check(mBranches[1], mTarget).none
    /\ BranchClass(mBranches[2]) = "PlainBranch"
    /\ mLog = <<>>

(***************************************************************************)
(* SpecStruct: the check method of a Struct[A] branch, called on its own.   *)
(***************************************************************************)
AttrNames == {"x", "y", "z"}
MaxAttrs == 2
MaxKwargs == 2
AttrLists == UNION {[1..n -> AttrNames] : n \in 0..MaxAttrs}
Constraints ==
    {Constraint(a, FALSE, IntV(1), "") : a \in AttrNames}
    \cup {Constraint(a, TRUE, NoneV, p) : a \in AttrNames, p \in {"odd", "id"}}
\* keyword arguments: each name at most once, in the order given
KwargLists ==
    {kw \in UNION {[1..n -> Constraints] : n \in 0..MaxKwargs} :
        \A j, k \in DOMAIN kw : j # k => kw[j].attr # kw[k].attr}
XAttrs == {<<>>} \cup {<<Attr("x", v)>> : v \in {IntV(0), IntV(1), NoneV}}
YAttrs == {<<>>, <<Attr("y", IntV(1))>>}
StructTargets ==
    {ObjV(t, 1, xa \o ya) : t \in {"A", "A1", "B"}, xa \in XAttrs, ya \in YAttrs}
    \cup {IntV(1)}

InitStruct ==
    /\ InitMatchModule
    /\ InitComposeIdle
    /\ \E attrs \in AttrLists, kwargs \in KwargLists :
          mBranches = <<Struct("A", attrs, kwargs)>>
    /\ mTarget \in StructTargets
    /\ mPc = "idle"
    /\ mIdx = 1
    /\ mLog = <<>>
    /\ mRes = NoMatchRes

NextStruct ==
    /\ CheckCall
    /\ UNCHANGED <<ifaceVars, composeVars>>

SpecStruct == InitStruct /\ [][NextStruct]_vars

\* A keyword constraint holds on the attribute it names.
ConstraintHolds(target, c) ==
    /\ HasAttr(target, c.attr)
    /\ IF c.callable THEN Truthy(CallPred(c.pred, GetAttr(target, c.attr)))
       ELSE PyEq(GetAttr(target, c.attr), c.val)

ComposeeClasses == {"A", "Zero", "P", "Q"}

\* class A: plain; class Zero: defines __bool__; P and Q define test, and
\* only P has been decorated with implements(IFace).
InitComposeModule ==
    /\ ins = [i \in {"IFace"} |-> Namespace("NoneType", <<PlainTest>>)]
    /\ ns = [c \in ComposeeClasses |->
               IF c = "Zero"
               THEN Namespace("NoneType", <<Func("__bool__", <<Self>>, Empty)>>)
               ELSE IF c \in {"P", "Q"} THEN Namespace("NoneType", <<PlainTest>>)
               ELSE Namespace("NoneType", <<>>)]
    /\ base = [c \in ComposeeClasses |-> "object"]
    /\ reg = [c \in ComposeeClasses |->
                IF c = "P" THEN [has |-> TRUE, tup |-> NewInterfaceList("IFace", <<>>)]
                ELSE [has |-> FALSE, tup |-> <<>>]]
    /\ py310 = TRUE
    /\ res = NoRes
    /\ applied = {<<"P", "IFace">>}

Cfg(type_, fields, name, build, kwargs) ==
    [type_ |-> type_, fields |-> fields, name |-> name, build |-> build,
     kwargs |-> kwargs]
KwX == [n \in {"x"} |-> IntV(1)]
KwXY == [n \in {"x", "y"} |-> IF n = "x" THEN IntV(1) ELSE IntV(2)]
ComposeCalls ==
    {Cfg("A", <<>>, "", TRUE, <<>>),
     Cfg("A", <<>>, "", FALSE, <<>>),
     Cfg("A", <<<<"x">>>>, "", TRUE, KwX),
     Cfg("A", <<<<"x">>>>, "", TRUE, <<>>),
     Cfg("A", <<<<"x", "v">>>>, "obj", FALSE, <<>>),
     Cfg("A", <<<<"x", "v">>, <<"y", "v">>>>, "", TRUE, KwXY),
     Cfg("A", <<<<"x", "obj">>>>, "obj", TRUE, KwX),
     Cfg("Zero", <<<<"x">>>>, "", TRUE, KwX),
     Cfg("Zero", <<>>, "", FALSE, <<>>),
     Cfg("IFace", <<<<"test">>>>, "obj", TRUE, <<>>),
     Cfg("IFace", <<>>, "", FALSE, <<>>)}
\* What the other holders make: objects of the classes that can stand in for
\* type_, with no instance attributes yet.
NewClasses == IF IsInterfaceType(cCfg.type_) THEN {"P", "Q"} ELSE {cCfg.type_}
NewAttrs == {<<>>}
AttrValues == {IntV(1), IntV(2)}

InitCompose ==
    /\ InitComposeModule
    /\ InitMatchIdle
    /\ cCfg \in ComposeCalls
    /\ heap = <<>>
    /\ cRes = NoComposeRes

NewObjectStep ==
    \E type \in NewClasses, attrs \in NewAttrs : NewObject(type, attrs)
InstantiateStep ==
    \E supplied \in {0} \cup {o \in DOMAIN heap : IsComposee(o)} : Instantiate(supplied)
ReadStep ==
    \E self \in DOMAIN heap, dest \in Dests(cCfg) :
        IsComposite(self) /\ ReadField(self, dest)
AssignStep ==
    \E self \in DOMAIN heap, dest \in Dests(cCfg), value \in AttrValues :
        IsComposite(self) /\ AssignField(self, dest, value)
DeleteStep ==
    \E self \in DOMAIN heap, dest \in Dests(cCfg) :
        IsComposite(self) /\ DeleteField(self, dest)
SetAttrStep ==
    \E o \in DOMAIN heap, attr \in Origins(cCfg), value \in AttrValues :
        IsComposee(o) /\ SetAttr(o, attr, value)
DelAttrStep ==
    \E o \in DOMAIN heap, attr \in Origins(cCfg) :
        IsComposee(o) /\ DelAttr(o, attr)

NextCompose ==
    /\ \/ NewObjectStep
       \/ InstantiateStep
       \/ ReadStep
       \/ AssignStep
       \/ DeleteStep
       \/ SetAttrStep
       \/ DelAttrStep
    /\ UNCHANGED <<ifaceVars, matchVars>>

SpecCompose == InitCompose /\ [][NextCompose]_vars

\* The composee name the claim gives: name, or "_" and the lower-cased type name.
ComposeeName == IF cCfg.name # "" THEN cCfg.name ELSE "_" \o Lower(cCfg.type_)

\* The supplied object passes __init__'s interface and forwarded-field checks.
PassesChecks(o) ==
    /\ IsInterfaceType(cCfg.type_) =>
          /\ HasInterfaces(heap[o].type)
          /\ cCfg.type_ \in Range(GetInterfaces(heap[o].type))
    /\ \A k \in DOMAIN cCfg.fields : ObjHasAttr(heap, o, fields_(cCfg)[k][1])

\* C6: a composite instantiated with n=obj, obj passing the interface and
\* forwarded-field checks, holds that same obj under n: nothing is built and
\* nothing is raised.  (Stated for composites none of whose forwarded names is
\* the composee name.)
C6_SuppliedInstanceIsKept ==
    /\ cRes.op = "init"
    /\ cRes.supplied # 0
    /\ PassesChecks(cRes.supplied)
    /\ ComposeeName \notin Dests(cCfg)
    => /\ cRes.outcome = "ok"
       /\ ~cRes.built
       /\ heap[cRes.comp].attrs[ComposeeName] = RefV(cRes.supplied)

\* The instance type_(...) makes has every forwarded origin field.
BuiltHasFields ==
    \A k \in DOMAIN cCfg.fields :
        \/ fields_(cCfg)[k][1] \in DOMAIN cCfg.kwargs
        \/ ClassHasAttr(cCfg.type_, fields_(cCfg)[k][1])
\* The composite just made holds a new type_ instance under the composee name.
StoredNewInstance ==
    /\ cRes.outcome = "ok"
    /\ cRes.comp = Len(heap)
    /\ cRes.obj = Len(heap) - 1
    /\ heap[cRes.comp].attrs = [n \in {ComposeeName} |-> RefV(cRes.obj)]
    /\ heap[cRes.obj] = [type |-> cCfg.type_, attrs |-> cCfg.kwargs]

\* C7 as stated: without an instance under the composee keyword, ValueError
\* when build=False or type_ is an Interface; otherwise a new type_ instance is
\* built and stored under the composee name.
C7_Original ==
    cRes.op = "init" /\ cRes.supplied = 0 =>
        IF ~cCfg.build \/ IsInterfaceType(cCfg.type_)
        THEN cRes.outcome = "ValueError" /\ ~cRes.built
        ELSE cRes.built /\ StoredNewInstance

\* C7, amended: ... otherwise a new type_ instance is built; it is stored under
\* the composee name when it has every forwarded origin field and no forwarded
\* name is the composee name; TypeError is raised when a field is missing, and
\* RecursionError when a forwarded name is the composee name.
C7_BuildOrValueError ==
    cRes.op = "init" /\ cRes.supplied = 0 =>
        IF ~cCfg.build \/ IsInterfaceType(cCfg.type_)
        THEN cRes.outcome = "ValueError" /\ ~cRes.built
        ELSE /\ cRes.built
             /\ IF ~BuiltHasFields THEN cRes.outcome = "TypeError"
                ELSE IF ComposeeName \in Dests(cCfg) THEN cRes.outcome = "RecursionError"
                ELSE StoredNewInstance

\* B() built a Zero and holds it under the default name.
C7_Witness ==
    /\ cRes.op = "init"
    /\ cRes.supplied = 0
    /\ cRes.built
    /\ cRes.outcome = "ok"
    /\ cCfg.type_ = "Zero"
    /\ "_zero" \in DOMAIN heap[cRes.comp].attrs

\* The composee a composite holds, in heap h.
Held(h, self) == h[self].attrs[ComposeeName].v
\* The origin that the last pair naming dest gives.
LastOrigin(dest) ==
    LET F == fields_(cCfg)
        last == CHOOSE k \in DOMAIN F :
                    F[k][2] = dest /\ \A j \in DOMAIN F : j > k => F[j][2] # dest
    IN  F[last][1]

\* C8 as stated: reading composite.dest yields the composee's origin, for
\* every pair (origin, dest) given to Compose.
C8_Original ==
    cRes.op = "read" =>
        \A k \in DOMAIN cCfg.fields :
            fields_(cCfg)[k][2] = cRes.dest =>
                LET r == ObjGetAttr(heap, Held(heap, cRes.comp), fields_(cCfg)[k][1])
                IN  cRes.outcome = r.outcome /\ cRes.val = r.val

\* What one step through the property of dest does, origin being its field.
ForwardingStep ==
    LET self == cRes'.comp
        origin == LastOrigin(cRes'.dest)
        held == Held(heap, self)
        others == \A o \in DOMAIN heap : o # held => heap'[o] = heap[o]
    IN  /\ cRes'.op = "read" =>
              /\ heap' = heap
              /\ IF origin \in DOMAIN heap[held].attrs
                 THEN cRes'.outcome = "ok" /\ cRes'.val = heap[held].attrs[origin]
                 ELSE IF ClassHasAttr(heap[held].type, origin)
                 THEN cRes'.outcome = "ok" /\ cRes'.val.type = "classattr"
                 ELSE cRes'.outcome = "AttributeError"
        /\ cRes'.op = "assign" =>
              /\ DOMAIN heap' = DOMAIN heap
              /\ others
              /\ heap'[held].type = heap[held].type
              /\ DOMAIN heap'[held].attrs = DOMAIN heap[held].attrs \cup {origin}
              /\ \A n \in DOMAIN heap'[held].attrs :
                    heap'[held].attrs[n] = IF n = origin THEN cRes'.val
                                           ELSE heap[held].attrs[n]
        /\ cRes'.op = "delete" =>
              /\ DOMAIN heap' = DOMAIN heap
              /\ others
              /\ IF origin \in DOMAIN heap[held].attrs
                 THEN /\ cRes'.outcome = "ok"
                      /\ DOMAIN heap'[held].attrs = DOMAIN heap[held].attrs \ {origin}
                      /\ \A n \in DOMAIN heap'[held].attrs :
                            heap'[held].attrs[n] = heap[held].attrs[n]
                 ELSE cRes'.outcome = "AttributeError" /\ heap' = heap

\* C8, amended: reading composite.dest yields the current value of origin on
\* the held composee, assigning sets it there and stores nothing on the
\* composite, deleting deletes it there, where origin is the one of the last
\* pair given to Compose that names dest; a plain field f is the pair (f, f).
C8_Forwarding == [][ForwardingStep]_vars

\* Two composites hold one composee; an assignment through one has just set
\* the field that both read.
C8_Witness ==
    /\ cRes.op = "assign"
    /\ \E other \in DOMAIN heap :
          /\ IsComposite(other)
          /\ other # cRes.comp
          /\ Held(heap, other) = Held(heap, cRes.comp)
    /\ cCfg.fields = <<<<"x", "v">>, <<"y", "v">>>>
    /\ heap[Held(heap, cRes.comp)].attrs["y"] = cRes.val
    /\ heap[Held(heap, cRes.comp)].attrs["x"] # cRes.val

====
